---- MODULE Spec2Model ----
(***************************************************************************)
(* Model of services/intelligence/src/config/__init__.py: the module body  *)
(* calls load_dotenv() and then executes the body of class Config, which   *)
(* reads PORT and ENV from the process environment.                        *)
(*                                                                         *)
(* A Python str is a sequence of one-character strings, a Python int is an *)
(* integer; both are wrapped in a tagged record so that a value's type is  *)
(* part of the value (Config.PORT is the int 8000, never the str "8000").  *)
(***************************************************************************)
EXTENDS Integers, Sequences, FiniteSets, TLC

VARIABLES
    environ,    \* os.environ: key -> str value, or None when the key is absent
    dotenv,     \* the .env file as python-dotenv parses it
    pc,         \* position in the module body
    ns,         \* namespace of the class body while it executes
    Config,     \* the module attribute Config (Unbound until the class statement ends)
    exc,        \* the exception that ended the import, if any
    observed,   \* the last value read from an attribute of Config
    ops,        \* number of operations performed after the import
    environ0,   \* history: os.environ when the import started
    atLoad,     \* history: the attributes of Config when the class was bound
    assigned    \* history: the attributes of Config assigned after the import

vars == <<environ, dotenv, pc, ns, Config, exc, observed, ops, environ0, atLoad, assigned>>

-----------------------------------------------------------------------------
(* Bounds *)

MaxLen == 2
MaxOps == 2

-----------------------------------------------------------------------------
(* Values *)

Keys == {"PORT", "ENV"}

None == [tag |-> "none"]
Str(s) == [tag |-> "str", val |-> s]
IntV(n) == [tag |-> "int", val |-> n]

Unbound == [tag |-> "unbound"]
NoException == [tag |-> "none"]
ValueError == [tag |-> "ValueError"]

Digits == {"0", "1", "2", "3", "4", "5", "6", "7", "8", "9"}
Signs == {"+", "-"}
Whitespace == {" "}

DigitVal(c) ==
    CASE c = "0" -> 0 [] c = "1" -> 1 [] c = "2" -> 2 [] c = "3" -> 3
      [] c = "4" -> 4 [] c = "5" -> 5 [] c = "6" -> 6 [] c = "7" -> 7
      [] c = "8" -> 8 [] c = "9" -> 9

DefaultPort == 8000
DefaultEnv == <<"d", "e", "v", "e", "l", "o", "p", "m", "e", "n", "t">>

-----------------------------------------------------------------------------
(* Inputs *)

Chars == {"7", "-", " ", "a", "_"}

StrsUpTo(n) == UNION {[1..m -> Chars] : m \in 0..n}

Production == <<"p", "r", "o", "d", "u", "c", "t", "i", "o", "n">>

PortSamples ==
    { <<"3", "0", "0", "0">>, <<"6", "5", "5", "3", "6">>, <<"0">>, <<"+", "7">>,
      <<"7", "_", "7">>, <<"_", "7">>, <<"7", "_">>, <<"7", "_", "_", "7">>,
      <<" ", "7", " ">>, <<"-", " ", "7">>, <<"-", "0">> }

PortInputs == StrsUpTo(MaxLen) \cup PortSamples
EnvInputs == { <<>>, Production, DefaultEnv, <<"7">> }

FilePortInputs == { <<"3", "0", "0", "0">>, <<>>, <<"a">>, <<"7", "_", "7">> }
FileEnvInputs == { Production, <<>> }

Opt(S) == {None} \cup {Str(s) : s \in S}

NoFile == [present |-> FALSE, vars |-> [k \in Keys |-> None]]
Files ==
    {NoFile} \cup
    { [present |-> TRUE, vars |-> [k \in Keys |-> IF k = "PORT" THEN p ELSE e]] :
        p \in Opt(FilePortInputs), e \in Opt(FileEnvInputs) }

PostEnvValues == { Str(<<"9">>), Str(<<>>) }
PostAttrValues == { IntV(9), Str(<<"x">>) }

-----------------------------------------------------------------------------
(* int(x) *)

RECURSIVE LStrip(_)
LStrip(s) ==
    IF s # <<>> /\ Head(s) \in Whitespace THEN LStrip(Tail(s)) ELSE s

RECURSIVE RStrip(_)
RStrip(s) ==
    IF s # <<>> /\ s[Len(s)] \in Whitespace
    THEN RStrip(SubSeq(s, 1, Len(s) - 1))
    ELSE s

\* The digits of a base-10 literal, left to right: prev is "start", "digit" or
\* "underscore"; an underscore is accepted only between two digits.
RECURSIVE ParseDigits(_, _, _)
ParseDigits(s, acc, prev) ==
    IF s = <<>> THEN [ok |-> prev = "digit", val |-> acc]
    ELSE IF Head(s) \in Digits
         THEN ParseDigits(Tail(s), acc * 10 + DigitVal(Head(s)), "digit")
    ELSE IF Head(s) = "_" /\ prev = "digit"
         THEN ParseDigits(Tail(s), acc, "underscore")
    ELSE [ok |-> FALSE, val |-> 0]

IntFromStringNoStrip(s) ==
    LET neg == s # <<>> /\ Head(s) = "-"
        body == IF s # <<>> /\ Head(s) \in Signs THEN Tail(s) ELSE s
        r == ParseDigits(body, 0, "start")
    IN  [ok |-> r.ok, val |-> IF neg THEN 0 - r.val ELSE r.val]

IntFromStringUnsigned(s) ==
    LET t == RStrip(LStrip(s))
        body == IF t # <<>> /\ Head(t) \in Signs THEN Tail(t) ELSE t
    IN  ParseDigits(body, 0, "start")

IntFromStringPortRange(s) ==
    LET r == IntFromStringNoStrip(RStrip(LStrip(s)))
    IN  [ok |-> r.ok /\ r.val >= 1 /\ r.val <= 65535, val |-> r.val]

\* int(s) for a str s: surrounding whitespace is stripped, then an optional
\* sign, then decimal digits with single underscores allowed between digits.
IntFromString(s) ==
    LET t == RStrip(LStrip(s))
        neg == t # <<>> /\ Head(t) = "-"
        body == IF t # <<>> /\ Head(t) \in Signs THEN Tail(t) ELSE t
        r == ParseDigits(body, 0, "start")
    IN  [ok |-> r.ok, val |-> IF neg THEN 0 - r.val ELSE r.val]

\* int(x): an int is returned as it is, a str is parsed.
PyInt(x) ==
    IF x.tag = "int" THEN [ok |-> TRUE, val |-> x.val] ELSE IntFromString(x.val)

-----------------------------------------------------------------------------
(* os.getenv and load_dotenv *)

GetenvOr(env, key, default) ==
    IF env[key] = None \/ env[key] = Str(<<>>) THEN default ELSE env[key]

\* os.getenv(key, default)
Getenv(env, key, default) ==
    IF env[key] = None THEN default ELSE env[key]

LoadDotenvOverride(env, file) ==
    [k \in Keys |-> IF file.vars[k] # None THEN file.vars[k] ELSE env[k]]

LoadDotenvSkipped(env, file) == env

\* load_dotenv() with its defaults (override=False): a key the file defines with
\* a value is set only if os.environ does not hold it; no file changes nothing.
LoadDotenvValues(env, file) ==
    IF ~file.present THEN env
    ELSE [k \in Keys |-> IF env[k] = None /\ file.vars[k] # None
                         THEN file.vars[k]
                         ELSE env[k]]

-----------------------------------------------------------------------------
(* The class body *)

PortExprNoDefault(env) ==
    IF env["PORT"] = None THEN [ok |-> FALSE, val |-> 0] ELSE PyInt(env["PORT"])

PortExprFallback(env) ==
    LET r == PyInt(Getenv(env, "PORT", IntV(DefaultPort)))
    IN  IF r.ok THEN r ELSE [ok |-> TRUE, val |-> DefaultPort]

\* int(os.getenv("PORT", 8000))
PortExpr(env) == PyInt(Getenv(env, "PORT", IntV(DefaultPort)))

EnvExprNormalised(env) == GetenvOr(env, "ENV", Str(DefaultEnv))

\* os.getenv("ENV", "development")
EnvExpr(env) == Getenv(env, "ENV", Str(DefaultEnv))

AttrValueLive(cfg, env, k) ==
    IF k = "PORT"
    THEN (LET r == PortExpr(env) IN IF r.ok THEN IntV(r.val) ELSE cfg[k])
    ELSE EnvExpr(env)

\* Config.<k>: a class attribute holds the value stored when the class body ran.
AttrValue(cfg, env, k) == cfg[k]

-----------------------------------------------------------------------------
(* State machine *)

EmptyNs == [k \in Keys |-> None]

Init ==
    /\ environ \in { [k \in Keys |-> IF k = "PORT" THEN p ELSE e] :
                       p \in Opt(PortInputs), e \in Opt(EnvInputs) }
    /\ dotenv \in Files
    /\ pc = "line7"
    /\ ns = EmptyNs
    /\ Config = Unbound
    /\ exc = NoException
    /\ observed = None
    /\ ops = 0
    /\ environ0 = environ
    /\ atLoad = Unbound
    /\ assigned = {}

\* line 7: load_dotenv()
LoadDotenv ==
    /\ pc = "line7"
    /\ environ' = LoadDotenvValues(environ, dotenv)
    /\ pc' = "line11"
    /\ UNCHANGED <<dotenv, ns, Config, exc, observed, ops, environ0, atLoad, assigned>>

\* line 11: PORT = int(os.getenv("PORT", 8000)); a ValueError is not caught, so
\* the class body is abandoned and the import fails.
EvalPORT ==
    /\ pc = "line11"
    /\ LET r == PortExpr(environ)
       IN  IF r.ok
           THEN /\ ns' = [ns EXCEPT !["PORT"] = IntV(r.val)]
                /\ pc' = "line12"
                /\ exc' = exc
           ELSE /\ ns' = EmptyNs
                /\ pc' = "failed"
                /\ exc' = ValueError
    /\ UNCHANGED <<environ, dotenv, Config, observed, ops, environ0, atLoad, assigned>>

\* line 12: ENV = os.getenv("ENV", "development")
EvalENV ==
    /\ pc = "line12"
    /\ ns' = [ns EXCEPT !["ENV"] = EnvExpr(environ)]
    /\ pc' = "bind"
    /\ UNCHANGED <<environ, dotenv, Config, exc, observed, ops, environ0, atLoad, assigned>>

\* end of the class statement: the class object is bound to the name Config
BindConfig ==
    /\ pc = "bind"
    /\ Config' = ns
    /\ atLoad' = ns
    /\ pc' = "loaded"
    /\ UNCHANGED <<environ, dotenv, ns, exc, observed, ops, environ0, assigned>>

\* After the import the process may change its environment ...
Putenv(k, v) ==
    /\ pc = "loaded"
    /\ ops < MaxOps
    /\ environ' = [environ EXCEPT ![k] = v]
    /\ ops' = ops + 1
    /\ UNCHANGED <<dotenv, pc, ns, Config, exc, observed, environ0, atLoad, assigned>>

Unsetenv(k) ==
    /\ pc = "loaded"
    /\ ops < MaxOps
    /\ environ[k] # None
    /\ environ' = [environ EXCEPT ![k] = None]
    /\ ops' = ops + 1
    /\ UNCHANGED <<dotenv, pc, ns, Config, exc, observed, environ0, atLoad, assigned>>

\* ... and use the class: Config is a plain class, its attributes can be read
\* and assigned.
GetAttr(k) ==
    /\ pc = "loaded"
    /\ ops < MaxOps
    /\ observed' = AttrValue(Config, environ, k)
    /\ ops' = ops + 1
    /\ UNCHANGED <<environ, dotenv, pc, ns, Config, exc, environ0, atLoad, assigned>>

SetAttr(k, v) ==
    /\ pc = "loaded"
    /\ ops < MaxOps
    /\ Config' = [Config EXCEPT ![k] = v]
    /\ assigned' = assigned \cup {k}
    /\ ops' = ops + 1
    /\ UNCHANGED <<environ, dotenv, pc, ns, exc, observed, environ0, atLoad>>

Next ==
    \/ LoadDotenv
    \/ EvalPORT
    \/ EvalENV
    \/ BindConfig
    \/ \E k \in Keys, v \in PostEnvValues : Putenv(k, v)
    \/ \E k \in Keys : Unsetenv(k)
    \/ \E k \in Keys : GetAttr(k)
    \/ \E k \in Keys, v \in PostAttrValues : SetAttr(k, v)

Spec == Init /\ [][Next]_vars

-----------------------------------------------------------------------------
(* Notions the properties are stated in *)

\* A decimal integer string: an optional sign followed by one or more digits.
IsDecimalIntString(s) ==
    /\ Len(s) >= 1
    /\ LET body == IF s[1] \in Signs THEN Tail(s) ELSE s
       IN  /\ Len(body) >= 1
           /\ \A i \in 1..Len(body) : body[i] \in Digits

\* Its value, by positional weights.
RECURSIVE WeightedSum(_, _)
WeightedSum(body, i) ==
    IF i > Len(body) THEN 0
    ELSE DigitVal(body[i]) * 10 ^ (Len(body) - i) + WeightedSum(body, i + 1)

DecimalValue(s) ==
    LET body == IF s[1] \in Signs THEN Tail(s) ELSE s
        magnitude == WeightedSum(body, 1)
    IN  IF s[1] = "-" THEN 0 - magnitude ELSE magnitude

\* The strings int() accepts, stated as a grammar: whitespace, then a core, then
\* whitespace; the core is an optional sign and a run of digits and underscores
\* that starts and ends with a digit and has no two underscores in a row.
IsIntLiteralCore(t) ==
    /\ Len(t) >= 1
    /\ LET b == IF t[1] \in Signs THEN Tail(t) ELSE t
       IN  /\ Len(b) >= 1
           /\ b[1] \in Digits
           /\ b[Len(b)] \in Digits
           /\ \A m \in 1..Len(b) : b[m] \in Digits \cup {"_"}
           /\ \A m \in 1..(Len(b) - 1) : ~(b[m] = "_" /\ b[m + 1] = "_")

IntAccepts(s) ==
    \E i \in 1..Len(s), j \in 1..Len(s) :
        /\ i <= j
        /\ \A m \in 1..(i - 1) : s[m] \in Whitespace
        /\ \A m \in (j + 1)..Len(s) : s[m] \in Whitespace
        /\ IsIntLiteralCore(SubSeq(s, i, j))

IsStr(x) == x.tag = "str"

\* The import is still before the end of line 11, or it failed there.
NotPastPort == pc \in {"line7", "line11", "failed"}

\* The state the import leaves behind when it succeeds.
JustLoaded == pc = "loaded" /\ ops = 0

FileDefines(k) == dotenv.present /\ dotenv.vars[k] # None

Absent(k) == environ0[k] = None /\ ~FileDefines(k)

-----------------------------------------------------------------------------
(* Properties *)

\* C1: with neither PORT nor ENV defined, in the process environment or in the
\* environment file, the import does not fail and leaves Config.PORT = 8000 (an
\* int) and Config.ENV = "development".
C1_Defaults ==
    (Absent("PORT") /\ Absent("ENV")) =>
        /\ pc # "failed"
        /\ JustLoaded => /\ Config["PORT"] = IntV(8000)
                         /\ Config["ENV"] = Str(DefaultEnv)

C1_Witness ==
    /\ JustLoaded
    /\ ~dotenv.present
    /\ environ0 = [k \in Keys |-> None]
    /\ Config = [k \in Keys |-> IF k = "PORT" THEN IntV(8000) ELSE Str(DefaultEnv)]

\* C2: for every decimal integer string p supplied as PORT the import does not
\* fail and Config.PORT is the int with the value of p, whatever ENV is.
C2_PortIsIntegerValue ==
    (IsStr(environ0["PORT"]) /\ IsDecimalIntString(environ0["PORT"].val)) =>
        /\ pc # "failed"
        /\ JustLoaded => Config["PORT"] = IntV(DecimalValue(environ0["PORT"].val))

C2_Witness ==
    /\ JustLoaded
    /\ environ0["PORT"] = Str(<<"3", "0", "0", "0">>)
    /\ environ0["ENV"] = Str(Production)
    /\ Config["PORT"] = IntV(3000)
    /\ Config["ENV"] = Str(Production)

\* C3: for every string e supplied as ENV, the empty string included, a
\* successful import leaves Config.ENV = e exactly.
C3_EnvVerbatim ==
    (IsStr(environ0["ENV"]) /\ JustLoaded) => Config["ENV"] = environ0["ENV"]

C3_Witness ==
    /\ JustLoaded
    /\ environ0["ENV"] = Str(<<>>)
    /\ Config["ENV"] = Str(<<>>)

\* C4 (as stated): for any PORT string that is not a decimal integer string the
\* import fails at line 11 with a ValueError and Config is never bound.
C4_NonNumericFails ==
    (IsStr(environ0["PORT"]) /\ ~IsDecimalIntString(environ0["PORT"].val)) =>
        /\ NotPastPort
        /\ Config = Unbound
        /\ observed = None
        /\ pc = "failed" => exc = ValueError /\ ns = EmptyNs

\* C4 (amended): for any PORT string that int() does not accept (after
\* surrounding whitespace is stripped: an optional sign, then digits with
\* single underscores allowed between digits) the import fails at line 11
\* with a ValueError; Config is never bound, no attribute of it is ever read
\* and the class namespace is discarded, whatever ENV is.
C4_RejectedPortFails ==
    (IsStr(environ0["PORT"]) /\ ~IntAccepts(environ0["PORT"].val)) =>
        /\ NotPastPort
        /\ Config = Unbound
        /\ observed = None
        /\ pc = "failed" => exc = ValueError /\ ns = EmptyNs

C4_Witness ==
    /\ pc = "failed"
    /\ exc = ValueError
    /\ environ0["PORT"] = Str(<<"a">>)
    /\ environ0["ENV"] = Str(Production)
    /\ Config = Unbound

C6_SeedingKeepsPresent ==
    (pc # "line7" /\ ops = 0) =>
        \A k \in Keys :
            /\ environ0[k] # None => environ[k] = environ0[k]
            /\ environ[k] # environ0[k] =>
                   environ0[k] = None /\ FileDefines(k) /\ environ[k] = dotenv.vars[k]

C6_Witness ==
    /\ JustLoaded
    /\ environ0["PORT"] = Str(<<"7">>)
    /\ dotenv.present
    /\ dotenv.vars["PORT"] = Str(<<"3", "0", "0", "0">>)
    /\ environ0["ENV"] = None
    /\ dotenv.vars["ENV"] = Str(Production)
    /\ environ["PORT"] = Str(<<"7">>)
    /\ environ["ENV"] = Str(Production)
    /\ Config["PORT"] = IntV(7)

\* C7: the environment file is read before the lookups: a PORT or ENV absent
\* from the process environment and defined in the file gives Config the
\* file's value, not the default.
C7_FileBeforeLookup ==
    JustLoaded =>
        /\ (environ0["ENV"] = None /\ FileDefines("ENV")) =>
               Config["ENV"] = dotenv.vars["ENV"]
        /\ (environ0["PORT"] = None /\ FileDefines("PORT")) =>
               /\ IntAccepts(dotenv.vars["PORT"].val)
               /\ IsDecimalIntString(dotenv.vars["PORT"].val) =>
                      Config["PORT"] = IntV(DecimalValue(dotenv.vars["PORT"].val))

C7_Witness ==
    /\ JustLoaded
    /\ environ0 = [k \in Keys |-> None]
    /\ dotenv.vars["PORT"] = Str(<<"3", "0", "0", "0">>)
    /\ dotenv.vars["ENV"] = Str(Production)
    /\ Config["PORT"] = IntV(3000)
    /\ Config["ENV"] = Str(Production)

\* C8 (as stated): after a successful import the attributes of Config equal
\* the values computed at load in every later state, whatever is done to the
\* process environment or to Config.
C8_ImmutableAfterLoad ==
    pc = "loaded" =>
        \A k \in Keys : AttrValue(Config, environ, k) = atLoad[k]

\* C8 (amended): after a successful import, an attribute of Config that has
\* not been assigned since equals the value computed at load, whatever has
\* been done to the process environment; and the values read are those values.
C8_UnchangedUnlessAssigned ==
    pc = "loaded" =>
        /\ \A k \in Keys \ assigned : AttrValue(Config, environ, k) = atLoad[k]
        /\ (assigned = {} /\ observed # None) => observed \in {atLoad[k] : k \in Keys}

C8_Witness ==
    /\ pc = "loaded"
    /\ assigned = {}
    /\ environ0["PORT"] = Str(<<"7">>)
    /\ environ["PORT"] = Str(<<"9">>)
    /\ Config["PORT"] = IntV(7)
    /\ observed = IntV(7)

\* C9: a PORT defined as the empty string, in the process environment or by
\* the environment file, is present: the default is not used and the import
\* fails with a ValueError.
C9_EmptyPortFails ==
    \/ environ0["PORT"] = Str(<<>>)
    \/ (environ0["PORT"] = None /\ FileDefines("PORT") /\ dotenv.vars["PORT"] = Str(<<>>))
    => /\ NotPastPort
       /\ Config = Unbound
       /\ pc = "failed" => exc = ValueError

C9_Witness ==
    /\ pc = "failed"
    /\ exc = ValueError
    /\ environ0["PORT"] = Str(<<>>)
    /\ ~dotenv.present

\* C10: no range validation: a decimal integer string whose value is zero,
\* negative or above 65535 loads and is exposed unchanged as Config.PORT.
C10_NoRangeValidation ==
    (/\ IsStr(environ0["PORT"])
     /\ IsDecimalIntString(environ0["PORT"].val)
     /\ (DecimalValue(environ0["PORT"].val) <= 0 \/ DecimalValue(environ0["PORT"].val) > 65535)) =>
        /\ pc # "failed"
        /\ exc = NoException
        /\ JustLoaded => Config["PORT"].val = DecimalValue(environ0["PORT"].val)

C10_Witness ==
    /\ JustLoaded
    /\ environ0["PORT"] = Str(<<"6", "5", "5", "3", "6">>)
    /\ Config["PORT"] = IntV(65536)

====
